---- MODULE Spec2Model ----
(***************************************************************************)
(* cross-storage: a client (CrossStorageClient) that proxies storage       *)
(* operations to a hub (CrossStorageHub) over window.postMessage.          *)
(*                                                                         *)
(* The client half models the 0.3.3 client; the hub half models the hub's *)
(* listener and permission check, with both storage codecs found in the   *)
(* sources (the TTL codec of the 0.6.1 hub and the raw codec of lib/hub). *)
(***************************************************************************)
EXTENDS Integers, Sequences, FiniteSets, TLC

\* ------------------------------------------------------------------ bounds
MaxRequests == 2      \* requests a client registers (cap of _count)
MaxPromises == 2      \* promises handed out by onConnect() and _request()
MaxEntries  == 2      \* entries of the hub's permission table
MaxKeys     == 2      \* keys named by one get or del request
MaxTtl      == 1      \* largest ttl passed to set
MaxTime     == 4      \* last instant of the hub's clock

\* --------------------------------------------------------------- constants
Origin      == "http://hub.example.com"      \* client._origin
OtherOrigin == "http://other.example.com"    \* any other window
NoId        == 0                             \* a response without an id
NoError     == ""                            \* response.error absent (falsy)
Undefined   == "undefined"

ClientMethods == {"get", "set"}
Results       == {"r1", "r2"}
Errors        == {"boom"}

VARIABLES
  \* ---- client (CrossStorageClient)
  connected,        \* client._connected
  closed,           \* client._closed
  count,            \* client._count
  requests,         \* client._requests[id]: id -> the promise its callback settles
  requestsConnect,  \* client._requests.connect: the promise it resolves, 0 if unset
  timers,           \* ids whose setTimeout is scheduled (not fired, not cleared)
  promises,         \* every promise returned by onConnect() and _request()
  toHub,            \* request envelopes posted to the hub window
  polling,          \* the setInterval of _poll is running
  clientIn,         \* the message event last delivered to the client's window
  uncaught,         \* the exception the listener raised on that event, "" if none
  \* ---- hub (CrossStorageHub)
  installed,        \* the hub page: "loading", "listening" (listener installed)
                    \* or "unavailable" (init returned without installing it)
  permissions,      \* CrossStorageHub._permissions
  storage,          \* window.localStorage: key -> stored string
  eventListeners,   \* CrossStorageHub._eventListeners: eventKey -> handler
  handlers,         \* the handlers installed on the 'storage' event, each by its
                    \* eventKey, in the order they were added
  codec,            \* which _set/_get pair the hub was built with
  now,              \* CrossStorageHub._now()
  hubIn,            \* the message event last delivered to the hub's listener
  hubOut,           \* what the listener posted to window.parent for that event
  written,          \* per key, the last write the hub acknowledged
  removed           \* per key that event removed from the store, the string it held

clientVars == <<connected, closed, count, requests, requestsConnect, timers,
                promises, toHub, polling, clientIn, uncaught>>

hubVars == <<installed, permissions, storage, eventListeners, handlers, codec, now,
             hubIn, hubOut, written, removed>>

vars == <<connected, closed, count, requests, requestsConnect, timers,
          promises, toHub, polling, clientIn, uncaught,
          installed, permissions, storage, eventListeners, handlers, codec, now,
          hubIn, hubOut, written, removed>>

\* ------------------------------------------------------------------ client

\* Message events a window can receive: the ready token, a payload that is
\* not JSON, or a JSON response envelope {id, error, result}.
Ids == 1..MaxRequests

Response(o, i, e, r) ==
  [origin |-> o, kind |-> "response", id |-> i, error |-> e, result |-> r]

ClientMessages ==
  { [origin |-> o, kind |-> "ready", id |-> NoId, error |-> NoError, result |-> Undefined] :
      o \in {Origin, OtherOrigin} }
  \cup { [origin |-> Origin, kind |-> "garbage", id |-> NoId, error |-> NoError,
          result |-> Undefined] }
  \cup { Response(Origin, NoId, NoError, r) : r \in {"r1"} }
  \cup { Response(OtherOrigin, i, NoError, r) : i \in Ids, r \in {"r1"} }
  \cup { Response(Origin, i, e, Undefined) : i \in Ids, e \in Errors }
  \cup { Response(Origin, i, NoError, r) : i \in Ids, r \in Results }

NoMessage ==
  [origin |-> "", kind |-> "none", id |-> NoId, error |-> NoError, result |-> Undefined]

\* A promise settles at most once: resolve/reject on a settled promise is a no-op.
Settle(p, st, err, val) ==
  IF p.state = "pending"
  THEN [p EXCEPT !.state = st, !.err = err, !.val = val]
  ELSE p

NewPromise(kind, id, method) ==
  [kind |-> kind, id |-> id, method |-> method,
   state |-> "pending", err |-> <<>>, val |-> Undefined]

\* new Error('Timeout: could not perform ' + req.method)
TimeoutError(method) == <<"Timeout: could not perform ", method>>

\* new Error('CrossStorageClient has closed')
ClosedError == <<"CrossStorageClient has closed">>

\* onConnect(): resolved at once when connected, else the resolver is stored
\* in the single slot _requests.connect.
OnConnect ==
  /\ Len(promises) < MaxPromises
  /\ IF connected
     THEN /\ promises' = Append(promises,
                 Settle(NewPromise("connect", NoId, "connect"), "fulfilled", <<>>, Undefined))
          /\ UNCHANGED requestsConnect
     ELSE /\ promises' = Append(promises, NewPromise("connect", NoId, "connect"))
          /\ requestsConnect' = Len(promises) + 1
  /\ UNCHANGED <<connected, closed, count, requests, timers, toHub, polling, clientIn, uncaught>>
  /\ UNCHANGED hubVars

\* Mutant: the closed check is missing.
ClosedCheckMissing(cl) == FALSE

\* if (this._closed) return this._promise.reject(...)
ClosedCheck(cl) == cl

\* Mutant: the counter stops at 1, so every later request reuses the id 1.
NextCountStuck(c) == IF c >= 1 THEN 1 ELSE c + 1

\* client._count++
NextCount(c) == c + 1

\* _request(method, params)
Request(method) ==
  /\ Len(promises) < MaxPromises
  /\ IF ClosedCheck(closed)
     THEN /\ promises' = Append(promises,
                 Settle(NewPromise("request", NoId, method), "rejected", ClosedError, Undefined))
          /\ UNCHANGED <<count, requests, timers, toHub>>
     ELSE /\ count < MaxRequests
          /\ count' = NextCount(count)
          /\ promises' = Append(promises, NewPromise("request", NextCount(count), method))
          /\ timers' = timers \cup {NextCount(count)}
          /\ requests' = [i \in DOMAIN requests \cup {NextCount(count)} |->
                            IF i = NextCount(count) THEN Len(promises) + 1 ELSE requests[i]]
          /\ toHub' = toHub \cup {[id |-> NextCount(count), method |-> method]}
  /\ UNCHANGED <<connected, closed, requestsConnect, polling, clientIn, uncaught>>
  /\ UNCHANGED hubVars

\* Mutant: the timed-out entry is left in the registry.
DeleteRequestMissing(reqs, id) == reqs

\* delete client._requests[req.id]
DeleteRequest(reqs, id) == [i \in DOMAIN reqs \ {id} |-> reqs[i]]

\* The setTimeout callback of request id.
Timeout(id) ==
  /\ id \in timers
  /\ timers' = timers \ {id}
  /\ IF id \notin DOMAIN requests
     THEN UNCHANGED <<requests, promises>>
     ELSE /\ requests' = DeleteRequest(requests, id)
          /\ promises' = [promises EXCEPT ![requests[id]] =
                            Settle(@, "rejected", TimeoutError(@.method), Undefined)]
  /\ UNCHANGED <<connected, closed, count, requestsConnect, toHub, polling, clientIn, uncaught>>
  /\ UNCHANGED hubVars

\* Mutant: messages are accepted from any origin.
FromAnyone(m) == TRUE

\* if (message.origin !== client._origin) return
FromHub(m) == m.origin = Origin

\* Mutant: responses are matched by arrival order (oldest registered request).
RequestCallbackOldest(reqs, id) ==
  IF DOMAIN reqs = {} THEN 0
  ELSE reqs[CHOOSE i \in DOMAIN reqs : \A j \in DOMAIN reqs : i <= j]

\* client._requests[response.id]: the callback registered under the id, 0 if none
RequestCallback(reqs, id) == IF id \in DOMAIN reqs THEN reqs[id] ELSE 0

\* Mutant: the callback does not cancel its timer.
ClearTimeoutMissing(ts, id) == ts

\* clearTimeout(timeout) in the request callback
ClearTimeout(ts, id) == ts \ {id}

\* Mutant: after clearing the timer the callback drops an error response.
CallbackDroppingError(p, err, result) ==
  IF err # NoError THEN p ELSE Settle(p, "fulfilled", <<>>, result)

\* The request callback: function(err, result)
Callback(p, err, result) ==
  IF err # NoError
  THEN Settle(p, "rejected", <<err>>, Undefined)
  ELSE Settle(p, "fulfilled", <<>>, result)

\* JSON.parse(message.data) throws on a payload that is not JSON; the listener
\* has no try/catch around it.
ParseError(m) == IF m.kind = "garbage" THEN "SyntaxError" ELSE ""

\* Mutant: the listener goes on handling messages after close().
ListenerClosedMissing(cl) == FALSE

\* if (client._closed) return
ListenerClosed(cl) == cl

\* this._listener = function(message)
Listener(m) ==
  /\ clientIn' = m
  /\ uncaught' = IF ListenerClosed(closed) \/ ~FromHub(m) THEN "" ELSE ParseError(m)
  /\ IF ListenerClosed(closed) \/ ~FromHub(m)
     THEN UNCHANGED <<connected, requestsConnect, promises, timers>>
     ELSE LET resolved == IF ~connected /\ requestsConnect # 0
                          THEN [promises EXCEPT ![requestsConnect] =
                                  Settle(@, "fulfilled", <<>>, Undefined)]
                          ELSE promises
              cb == IF m.kind = "response" /\ m.id # NoId
                    THEN RequestCallback(requests, m.id)
                    ELSE 0
          IN /\ connected' = TRUE
             /\ requestsConnect' = IF ~connected THEN 0 ELSE requestsConnect
             /\ promises' = IF cb # 0
                            THEN [resolved EXCEPT ![cb] = Callback(@, m.error, m.result)]
                            ELSE resolved
             /\ timers' = IF cb # 0 THEN ClearTimeout(timers, promises[cb].id) ELSE timers
  /\ UNCHANGED <<closed, count, requests, toHub, polling>>
  /\ UNCHANGED hubVars

\* The listener of dist/client.js: it tests neither _closed nor message.origin.
DistListener(m) ==
  /\ clientIn' = m
  /\ uncaught' = ParseError(m)
  /\ LET resolved == IF ~connected /\ requestsConnect # 0
                     THEN [promises EXCEPT ![requestsConnect] =
                             Settle(@, "fulfilled", <<>>, Undefined)]
                     ELSE promises
         cb == IF m.kind = "response" /\ m.id # NoId
               THEN RequestCallback(requests, m.id)
               ELSE 0
     IN /\ connected' = TRUE
        /\ requestsConnect' = IF ~connected THEN 0 ELSE requestsConnect
        /\ promises' = IF cb # 0
                       THEN [resolved EXCEPT ![cb] = Callback(@, m.error, m.result)]
                       ELSE resolved
        /\ timers' = IF cb # 0 THEN ClearTimeout(timers, promises[cb].id) ELSE timers
  /\ UNCHANGED <<closed, count, requests, toHub, polling>>
  /\ UNCHANGED hubVars

\* Mutant: close() rejects every request still in the registry.
CloseRejectingPending ==
  /\ connected' = FALSE
  /\ closed' = TRUE
  /\ promises' = [p \in 1..Len(promises) |->
                    IF promises[p].kind = "request"
                    THEN Settle(promises[p], "rejected", ClosedError, Undefined)
                    ELSE promises[p]]
  /\ UNCHANGED <<count, requests, requestsConnect, timers, toHub, polling, clientIn, uncaught>>
  /\ UNCHANGED hubVars

\* Mutant: close() leaves _connected as it is.
CloseStayingConnected ==
  /\ connected' = connected
  /\ closed' = TRUE
  /\ UNCHANGED <<count, requests, requestsConnect, timers, promises, toHub, polling, clientIn, uncaught>>
  /\ UNCHANGED hubVars

\* close()
Close ==
  /\ connected' = FALSE
  /\ closed' = TRUE
  /\ UNCHANGED <<count, requests, requestsConnect, timers, promises, toHub, polling, clientIn, uncaught>>
  /\ UNCHANGED hubVars

\* The envelope-less token the interval posts: postMessage('poll', _origin)
PollToken == [id |-> NoId, method |-> "poll"]

\* The setInterval callback of _poll
Poll ==
  /\ polling
  /\ IF connected
     THEN polling' = FALSE /\ toHub' = toHub
     ELSE polling' = polling /\ toHub' = toHub \cup {PollToken}
  /\ UNCHANGED <<connected, closed, count, requests, requestsConnect, timers,
                 promises, clientIn, uncaught>>
  /\ UNCHANGED hubVars

\* --------------------------------------------------------------------- hub

Keys      == {"key1", "key2"}
EventKeys == {"ev1", "ev2"}
StartTime == 2                       \* the clock when the hub starts

\* JavaScript values carried in params and results.
Str(s)       == [t |-> "string", s |-> s]
Obj          == [t |-> "object", s |-> "{foo:bar}"]
Null         == [t |-> "null", s |-> "null"]
Undef        == [t |-> "undefined", s |-> "undefined"]
Array(items) == [t |-> "array", items |-> items]

Values == {Str("foo"), Obj}

\* params.ttl: omitted, an integer, or a value that is not an integer
NoTtl  == [t |-> "undefined", n |-> 0]
Ttl(n) == [t |-> "number", n |-> n]
BadTtl == [t |-> "string", n |-> 5]
\* params.ttl: false, a value that is neither an integer nor truthy
FalseTtl == [t |-> "boolean", n |-> 0]
Ttls   == {NoTtl, BadTtl, FalseTtl, Ttl(0 - 1), Ttl(0), Ttl(MaxTtl)}

Truthy(ttl)    == ttl.t = "string" \/ (ttl.t = "number" /\ ttl.n # 0)
IsInteger(ttl) == ttl.t = "number"    \* parseInt(ttl, 10) === ttl

\* localStorage holds strings; getItem of a missing key returns null.
Absent == [fmt |-> "absent"]

\* JSON.stringify(item) / JSON.parse(string)
JsonStringify(item) == [fmt |-> "json", text |-> item]
IsJson(string)      == string.fmt = "json"
JsonParse(string)   == string.text
HasExpire(item)     == "expire" \in DOMAIN item

\* setItem(key, value) coerces a value that is not a string with String(value)
StringOf(v) == IF v.t = "object" THEN "[object Object]" ELSE v.s
RawString(v) == [fmt |-> "raw", text |-> StringOf(v)]

\* What an operation hands back to the listener: the value it returns or the
\* message of the Error it throws, and the hub state it leaves.
Ok(result, st) == [error |-> <<>>, result |-> result, state |-> st]
Throw(msg, st) == [error |-> <<msg>>, result |-> Undef, state |-> st]

\* Mutant: a set without ttl keeps the expiry of the item it replaces.
Hub_setKeepingExpire(params, st, t) ==
  IF Truthy(params.ttl) /\ ~IsInteger(params.ttl)
  THEN Throw("ttl must be a number", st)
  ELSE LET old  == st.storage[params.key]
           item == IF Truthy(params.ttl)
                   THEN [value |-> params.value, expire |-> t + params.ttl.n]
                   ELSE IF old # Absent /\ old.fmt = "json" /\ "expire" \in DOMAIN old.text
                   THEN [value |-> params.value, expire |-> old.text.expire]
                   ELSE [value |-> params.value]
       IN Ok(Undef, [st EXCEPT !.storage[params.key] = JsonStringify(item)])

\* CrossStorageHub._set of the TTL codec
Hub_set(params, st, t) ==
  IF Truthy(params.ttl) /\ ~IsInteger(params.ttl)
  THEN Throw("ttl must be a number", st)
  ELSE LET item == IF Truthy(params.ttl)
                   THEN [value |-> params.value, expire |-> t + params.ttl.n]
                   ELSE [value |-> params.value]
       IN Ok(Undef, [st EXCEPT !.storage[params.key] = JsonStringify(item)])

\* return (result.length > 1) ? result : result[0]
Collapse(result) ==
  IF Len(result) > 1 THEN Array(result)
  ELSE IF Len(result) = 1 THEN result[1] ELSE Undef

\* CrossStorageHub._get of the TTL codec: the loop over params.keys from i on
RECURSIVE GetLoop(_, _, _, _, _)
GetLoop(keys, i, st, t, result) ==
  IF i > Len(keys) THEN Ok(Collapse(result), st)
  ELSE LET string == st.storage[keys[i]]
       IN IF string = Absent
          THEN GetLoop(keys, i + 1, st, t, Append(result, Null))
          ELSE IF ~IsJson(string)
          THEN Throw("Unexpected token", st)
          ELSE LET item == JsonParse(string)
               IN IF HasExpire(item) /\ item.expire # 0 /\ item.expire < t
                  THEN GetLoop(keys, i + 1,
                               [st EXCEPT !.storage[keys[i]] = Absent], t,
                               Append(result, Null))
                  ELSE GetLoop(keys, i + 1, st, t, Append(result, item.value))

\* Mutant: the keys are read last to first.
Hub_getReversed(params, st, t) ==
  GetLoop([i \in 1..Len(params.keys) |-> params.keys[Len(params.keys) + 1 - i]],
          1, st, t, <<>>)

Hub_get(params, st, t) == GetLoop(params.keys, 1, st, t, <<>>)

\* CrossStorageHub._set of the raw codec
Hub_setRaw(params, st) ==
  Ok(Undef, [st EXCEPT !.storage[params.key] = RawString(params.value)])

\* CrossStorageHub._get of the raw codec
Hub_getRaw(params, st) ==
  Ok(Collapse([i \in 1..Len(params.keys) |->
                 IF st.storage[params.keys[i]] = Absent
                 THEN Null
                 ELSE Str(st.storage[params.keys[i]].text)]), st)

\* Mutant: only the first listed key is removed.
Hub_delFirst(params, st) ==
  Ok(Undef, [st EXCEPT !.storage =
               [k \in Keys |-> IF Len(params.keys) > 0 /\ params.keys[1] = k
                               THEN Absent ELSE st.storage[k]]])

\* CrossStorageHub._del
Hub_del(params, st) ==
  Ok(Undef, [st EXCEPT !.storage =
               [k \in Keys |-> IF \E i \in 1..Len(params.keys) : params.keys[i] = k
                               THEN Absent ELSE st.storage[k]]])

\* Mutant: only the items the hub wrote itself are removed.
Hub_clearOwn(st) ==
  Ok(Undef, [st EXCEPT !.storage =
               [k \in Keys |-> IF IsJson(st.storage[k]) THEN Absent ELSE st.storage[k]]])

\* CrossStorageHub._clear
Hub_clear(st) == Ok(Undef, [st EXCEPT !.storage = [k \in Keys |-> Absent]])

\* CrossStorageHub._getKeys: localStorage.key(0), key(1), ... in store order
RECURSIVE KeysOf(_)
KeysOf(S) ==
  IF S = {} THEN <<>>
  ELSE LET k == CHOOSE x \in S : TRUE IN <<k>> \o KeysOf(S \ {k})

\* Mutant: only the items the hub wrote itself are listed.
Hub_getKeysOwn(st) == Ok(Array(KeysOf({k \in Keys : IsJson(st.storage[k])})), st)

Hub_getKeys(st) == Ok(Array(KeysOf({k \in Keys : st.storage[k] # Absent})), st)

\* Mutant: the eventKey is not tested, a handler is installed on every call.
Hub_listenAgain(params, st) ==
  Ok(Undef, [st EXCEPT !.handlers = Append(@, params.eventKey),
                       !.eventListeners[params.eventKey] = "handler"])

\* CrossStorageHub._listen
Hub_listen(params, st) ==
  IF st.eventListeners[params.eventKey] # "unset"
  THEN Throw("Can't reuse eventKeys", st)
  ELSE Ok(Undef, [st EXCEPT !.handlers = Append(@, params.eventKey),
                            !.eventListeners[params.eventKey] = "handler"])

\* removeEventListener('storage', handler): the handler _eventListeners holds
\* for the eventKey is the one added last for it.
RemoveHandler(hs, e) ==
  IF \A i \in 1..Len(hs) : hs[i] # e THEN hs
  ELSE LET last == CHOOSE i \in 1..Len(hs) :
                      hs[i] = e /\ \A j \in (i + 1)..Len(hs) : hs[j] # e
       IN SubSeq(hs, 1, last - 1) \o SubSeq(hs, last + 1, Len(hs))

\* Mutant: unlisten deletes the eventKey from _eventListeners.
Hub_unlistenForgetting(params, st) ==
  Ok(Undef, [st EXCEPT !.handlers =
                          IF st.eventListeners[params.eventKey] = "handler"
                          THEN RemoveHandler(@, params.eventKey)
                          ELSE @,
                       !.eventListeners[params.eventKey] = "unset"])

\* CrossStorageHub._unlisten
Hub_unlisten(params, st) ==
  Ok(Undef, [st EXCEPT !.handlers =
                          IF st.eventListeners[params.eventKey] = "handler"
                          THEN RemoveHandler(@, params.eventKey)
                          ELSE @,
                       !.eventListeners[params.eventKey] = "null"])

\* CrossStorageHub._inArray(value, array) called with the params alone: array
\* is undefined and reading array.length throws a TypeError.
Hub_inArray(params, st) == Throw("Cannot read property 'length' of undefined", st)

\* CrossStorageHub['_' + method](request.params)
Dispatch(method, params, st, t, cdc) ==
  CASE method = "set"      -> IF cdc = "ttl" THEN Hub_set(params, st, t)
                              ELSE Hub_setRaw(params, st)
    [] method = "get"      -> IF cdc = "ttl" THEN Hub_get(params, st, t)
                              ELSE Hub_getRaw(params, st)
    [] method = "del"      -> Hub_del(params, st)
    [] method = "clear"    -> Hub_clear(st)
    [] method = "getKeys"  -> Hub_getKeys(st)
    [] method = "listen"   -> Hub_listen(params, st)
    [] method = "unlisten" -> Hub_unlisten(params, st)
    [] method = "inArray"  -> Hub_inArray(params, st)

\* available = ['get', 'set', 'listen', 'del', 'clear', 'getKeys']
Available == {"get", "set", "listen", "del", "clear", "getKeys"}

\* A permission entry {origin, allow}: origin is modelled by the set of origin
\* strings the RegExp matches; isRegExp/isArray are the instanceof checks.
Entry(matches, allow) ==
  [isRegExp |-> TRUE, isArray |-> TRUE, origin |-> matches, allow |-> allow]

\* The loop of _permitted over _permissions from entry i on
RECURSIVE PermittedFrom(_, _, _, _)
PermittedFrom(i, perms, origin, method) ==
  IF i > Len(perms) THEN FALSE
  ELSE IF ~perms[i].isRegExp \/ ~perms[i].isArray
       THEN PermittedFrom(i + 1, perms, origin, method)
       ELSE IF origin \in perms[i].origin /\ method \in perms[i].allow
            THEN TRUE
            ELSE PermittedFrom(i + 1, perms, origin, method)

\* Mutant: the origin is not tested, any entry listing the method grants it.
PermittedAnyOrigin(origin, method, perms) ==
  \E i \in 1..Len(perms) :
     (IF method = "unlisten" THEN "listen" ELSE method) \in perms[i].allow

\* Mutant: the first entry matching the origin decides (deny semantics).
PermittedFirstMatch(origin, method, perms) ==
  LET m == IF method = "unlisten" THEN "listen" ELSE method
      hits == {i \in 1..Len(perms) :
                 perms[i].isRegExp /\ perms[i].isArray /\ origin \in perms[i].origin}
  IN /\ m \in Available
     /\ hits # {}
     /\ m \in perms[CHOOSE i \in hits : \A j \in hits : i <= j].allow

\* Mutant: the method is not tested against the available operations.
PermittedUnlisted(origin, method, perms) ==
  PermittedFrom(1, perms, origin, IF method = "unlisten" THEN "listen" ELSE method)

\* CrossStorageHub._permitted
Permitted(origin, method, perms) ==
  LET m == IF method = "unlisten" THEN "listen" ELSE method
  IN IF m \notin Available THEN FALSE ELSE PermittedFrom(1, perms, origin, m)

\* error = 'Invalid permissions for ' + method
InvalidPermissions(method) == <<"Invalid permissions for ", method>>

\* request.method on the wire is 'cross-storage:' + name
Wire(name)  == [prefixed |-> TRUE, name |-> name]
Bare(name)  == [prefixed |-> FALSE, name |-> name]

\* request.method.split('cross-storage:')[1]: falsy without prefix or name
MethodOf(wire) == IF wire.prefixed THEN wire.name ELSE ""

Params(key, value, ttl, keys, eventKey) ==
  [key |-> key, value |-> value, ttl |-> ttl, keys |-> keys, eventKey |-> eventKey]

NoParams == Params("key1", Undef, NoTtl, <<>>, "ev1")

\* A message event at the hub: the poll or ready token, a payload that does not
\* parse, a JSON payload without a string method, or a request envelope.
HubMessage(origin, kind, id, method, params) ==
  [origin |-> origin, kind |-> kind, id |-> id, method |-> method, params |-> params]

HubRequest(origin, id, method, params) ==
  HubMessage(origin, "request", id, method, params)

NoHubMessage == HubMessage("", "none", NoId, Bare(""), NoParams)

\* What the hub posts to window.parent: data and targetOrigin
Ready(target) ==
  [kind |-> "ready", id |-> NoId, error |-> <<>>, result |-> Undef, target |-> target]

Reply(id, error, result, target) ==
  [kind |-> "response", id |-> id, error |-> error, result |-> result, target |-> target]

Unwritten == [at |-> 0]

\* The write, if any, that the hub acknowledged for key k with this request.
Acknowledged(k, method, params, error, t, old) ==
  IF error # <<>> THEN old
  ELSE CASE method = "set" /\ params.key = k ->
              [value |-> params.value, ttl |-> params.ttl, at |-> t]
         [] method = "del" /\ (\E i \in 1..Len(params.keys) : params.keys[i] = k) ->
              Unwritten
         [] method = "clear" -> Unwritten
         [] OTHER -> old

\* The strings that are in the store before and no longer after.
Removed(before, after) ==
  [k \in {x \in Keys : before[x] # Absent /\ after[x] = Absent} |-> before[k]]

\* Mutant: every message is answered.
IgnoredNever(m, method) == FALSE

\* The returns of the listener that post nothing: the payload does not parse,
\* request.method is not a string, or nothing follows 'cross-storage:' in it.
Ignored(m, method) == m.kind # "request" \/ method = ""

\* CrossStorageHub._listener
HubListener(m) ==
  LET origin == IF m.origin = "null" THEN "file://" ELSE m.origin
      method == MethodOf(m.method)
      st     == [storage |-> storage, eventListeners |-> eventListeners,
                 handlers |-> handlers]
      out    == IF ~Permitted(origin, method, permissions)
                THEN [error |-> InvalidPermissions(method), result |-> Undef, state |-> st]
                ELSE Dispatch(method, m.params, st, now, codec)
      target == IF origin = "file://" THEN "*" ELSE origin
  IN /\ installed = "listening"
     /\ hubIn' = m
     /\ IF m.kind = "poll"
        THEN /\ hubOut' = <<Ready(m.origin)>>
             /\ removed' = <<>>
             /\ UNCHANGED <<storage, eventListeners, handlers, written>>
        ELSE IF Ignored(m, method)
        THEN /\ hubOut' = <<>>
             /\ removed' = <<>>
             /\ UNCHANGED <<storage, eventListeners, handlers, written>>
        ELSE \E o \in {out} :          \* the operation is called once
             /\ hubOut' = <<Reply(m.id, o.error, o.result, target)>>
             /\ storage' = o.state.storage
             /\ eventListeners' = o.state.eventListeners
             /\ handlers' = o.state.handlers
             /\ written' = [k \in Keys |->
                   Acknowledged(k, method, m.params, o.error, now, written[k])]
             /\ removed' = Removed(storage, o.state.storage)
     /\ UNCHANGED <<installed, permissions, codec, now>>
     /\ UNCHANGED clientVars

\* window.parent.postMessage('cross-storage:unavailable', '*')
Unavailable ==
  [kind |-> "unavailable", id |-> NoId, error |-> <<>>, result |-> Undef, target |-> "*"]

\* Mutant: init does not test the store and always installs the listener.
Hub_initUnchecked(perms, available) ==
  /\ installed = "loading"
  /\ installed' = "listening"
  /\ permissions' = perms
  /\ eventListeners' = [e \in EventKeys |-> "unset"]
  /\ hubOut' = <<Ready("*")>>
  /\ UNCHANGED <<storage, handlers, codec, now, hubIn, written, removed>>
  /\ UNCHANGED clientVars

\* CrossStorageHub.init(permissions); available: window.localStorage can be
\* read (a notice posted to '*' as a string is not refused by the parent).
Hub_init(perms, available) ==
  /\ installed = "loading"
  /\ IF ~available
     THEN /\ installed' = "unavailable"
          /\ hubOut' = <<Unavailable>>
          /\ UNCHANGED <<permissions, eventListeners>>
     ELSE /\ installed' = "listening"
          /\ permissions' = perms
          /\ eventListeners' = [e \in EventKeys |-> "unset"]
          /\ hubOut' = <<Ready("*")>>
  /\ UNCHANGED <<storage, handlers, codec, now, hubIn, written, removed>>
  /\ UNCHANGED clientVars

\* A message event on the hub's window while no listener is installed:
\* nothing runs and nothing is posted.
Unheard(m) ==
  /\ installed # "listening"
  /\ hubIn' = m
  /\ hubOut' = <<>>
  /\ removed' = <<>>
  /\ UNCHANGED <<installed, permissions, storage, eventListeners, handlers, codec,
                 now, written>>
  /\ UNCHANGED clientVars

\* Time passes between two events.
Tick ==
  /\ now < MaxTime
  /\ now' = now + 1
  /\ UNCHANGED <<installed, permissions, storage, eventListeners, handlers, codec,
                 hubIn, hubOut, written, removed>>
  /\ UNCHANGED clientVars

\* A string put in the store by another script of the hub's origin.
ForeignString == [fmt |-> "raw", text |-> "foreign"]

\* localStorage.setItem(k, ...) by another script of the hub's origin: the
\* store is shared, the write does not go through the hub's listener.
ForeignSetItem(k) ==
  /\ storage' = [storage EXCEPT ![k] = ForeignString]
  /\ written' = [written EXCEPT ![k] = Unwritten]
  /\ UNCHANGED <<installed, permissions, eventListeners, handlers, codec, now,
                 hubIn, hubOut, removed>>
  /\ UNCHANGED clientVars

\* What a 'storage' handler posts to window.parent: JSON of {type: 'event',
\* eventKey, eventData: {key, newValue, oldValue, url}} with target '*'
EventPost(e, k, new, old) ==
  [kind |-> "event", eventKey |-> e, key |-> k, newValue |-> new, oldValue |-> old,
   target |-> "*"]

\* Another document of the hub's origin writes k in the given storage area:
\* the 'storage' event runs every installed handler in the hub's window; a
\* handler returns at once unless the area is localStorage.
StorageEvent(k, area) ==
  /\ installed = "listening"
  /\ IF area = "localStorage"
     THEN /\ storage' = [storage EXCEPT ![k] = ForeignString]
          /\ written' = [written EXCEPT ![k] = Unwritten]
          /\ hubOut' = [i \in 1..Len(handlers) |->
                          EventPost(handlers[i], k, ForeignString, storage[k])]
     ELSE /\ hubOut' = <<>>
          /\ UNCHANGED <<storage, written>>
  /\ removed' = <<>>
  /\ UNCHANGED <<installed, permissions, eventListeners, handlers, codec, now, hubIn>>
  /\ UNCHANGED clientVars

\* The hub page in state inst, with out still on its way to the parent window.
HubPage(inst, perms, cdc, out) ==
  /\ installed = inst
  /\ permissions = perms
  /\ storage = [k \in Keys |-> Absent]
  /\ eventListeners = [e \in EventKeys |-> "unset"]
  /\ handlers = <<>>
  /\ codec = cdc
  /\ now = StartTime
  /\ hubIn = NoHubMessage
  /\ hubOut = out
  /\ written = [k \in Keys |-> Unwritten]
  /\ removed = <<>>

\* The hub after init(permissions): the listener is installed.
HubStarted(perms, cdc, out) == HubPage("listening", perms, cdc, out)

\* The hub right after init(permissions): 'ready' posted to '*'.
HubInit(perms, cdc) == HubStarted(perms, cdc, <<Ready("*")>>)

\* new CrossStorageClient(url, opts): with opts.frameId naming an existing
\* frame the client starts polling, otherwise it creates its own frame.
Constructed(onFrame) ==
  /\ connected = FALSE
  /\ closed = FALSE
  /\ count = 0
  /\ requests = [i \in {} |-> 0]
  /\ requestsConnect = 0
  /\ timers = {}
  /\ promises = <<>>
  /\ toHub = {}
  /\ polling = onFrame
  /\ clientIn = NoMessage
  /\ uncaught = ""

ClientInit == Constructed(FALSE)

Init == ClientInit /\ HubInit(<<>>, "ttl")

Next ==
  \/ OnConnect
  \/ \E method \in ClientMethods : Request(method)
  \/ \E id \in Ids : Timeout(id)
  \/ \E m \in ClientMessages : Listener(m)
  \/ Close

Spec == Init /\ [][Next]_vars

\* The same client with its timers running: every scheduled setTimeout
\* callback eventually fires.
SpecFair == Init /\ [][Next]_vars /\ \A id \in Ids : WF_vars(Timeout(id))

\* ---------------------------------------- two clients in the same window

\* client._id, drawn by _generateUUID() from Math.random(): this client's and
\* the values another client of the window may have drawn.
Uuid  == "u1"
Uuids == {"u1", "u2"}

\* Mutant: the id on the wire is the counter alone.
WireIdCountOnly(u, i) == i

\* req.id = this._id + ':' + client._count as the listener of this client
\* sees it: i for its own uuid, a key outside its registry for another one.
WireId(u, i) == IF u = Uuid THEN i ELSE MaxRequests + i

\* The hub's response to request i of a client whose _id is u: the hub posts
\* it to the window, where the listener of every client receives it.
SiblingResponse(u, i, r) == Listener(Response(Origin, WireId(u, i), NoError, r))

NextSiblings ==
  \/ OnConnect
  \/ \E method \in ClientMethods : Request(method)
  \/ \E id \in Ids : Timeout(id)
  \/ \E m \in ClientMessages : Listener(m)
  \/ \E u \in Uuids, i \in Ids, r \in Results : SiblingResponse(u, i, r)
  \/ Close

SpecSiblings == Init /\ [][NextSiblings]_vars

\* The hub never replies: only other windows post to the client, and every
\* scheduled timer eventually fires (setTimeout callbacks always run).
NextSilent ==
  \/ OnConnect
  \/ \E method \in ClientMethods : Request(method)
  \/ \E id \in Ids : Timeout(id)
  \/ \E m \in {x \in ClientMessages : x.origin # Origin} : Listener(m)
  \/ Close

SpecSilent ==
  Init /\ [][NextSilent]_vars /\ \A id \in Ids : WF_vars(Timeout(id))

\* The client of dist/client.js: the same requests and timers, its own listener,
\* and no close().
NextDist ==
  \/ OnConnect
  \/ \E method \in ClientMethods : Request(method)
  \/ \E id \in Ids : Timeout(id)
  \/ \E m \in ClientMessages : DistListener(m)

SpecDist == Init /\ [][NextDist]_vars

\* ------------------------------------------------- hub under permissions

Www  == "http://www.example.com"
Sub  == "http://sub.example.com"
Evil == "http://evil.com"

Operations == {"get", "set", "del", "clear", "getKeys", "listen", "unlisten"}

\* Entries a hub page may pass to init; the last one is skipped by the
\* instanceof checks (its origin is a string, not a RegExp).
PermissionEntries ==
  { Entry({Www, Sub}, {"get"}),
    Entry({Www}, {"get", "set", "del"}),
    Entry({Www, "file://"}, {"listen", "clear", "getKeys"}),
    Entry({Sub}, {"unlisten", "inArray"}),
    [isRegExp |-> FALSE, isArray |-> TRUE, origin |-> {Evil}, allow |-> Operations] }

PermissionTables ==
  UNION { [1..n -> PermissionEntries] : n \in 0..MaxEntries }

SampleParams == Params("key1", Str("foo"), NoTtl, <<"key1">>, "ev1")

PermMessages ==
  { HubRequest(o, i, w, SampleParams) :
      o \in {Www, Sub, Evil, "null"}, i \in {1},
      w \in {Wire(n) : n \in Operations \cup {"inArray", ""}} \cup {Bare("get")} }
  \cup { HubRequest(Sub, 2, Wire(n), SampleParams) : n \in {"get", "set"} }
  \cup { HubMessage(o, k, NoId, Bare(""), NoParams) :
      o \in {Www, "null"}, k \in {"poll", "ready", "garbage", "nomethod"} }

InitPerm ==
  /\ ClientInit
  /\ \E perms \in PermissionTables : HubInit(perms, "ttl")

NextPerm == \E m \in PermMessages : HubListener(m)

SpecPerm == InitPerm /\ [][NextPerm]_vars

\* --------------------------- client on an existing frame, hub in that frame

\* The message event the hub's window gets for what the client posted: the
\* client's page is at Www; the string 'poll' is neither 'cross-storage:poll'
\* nor JSON; a request envelope carries req.method as the client set it,
\* without prefix.
FromClient(e) ==
  IF e = PollToken
  THEN HubMessage(Www, "garbage", NoId, Bare(""), NoParams)
  ELSE HubRequest(Www, e.id, Bare(e.method), SampleParams)

\* The message event the client's window gets for what the hub posted: the
\* string 'cross-storage:ready' is neither 'ready' nor JSON.
ToClient(o) ==
  IF o.kind = "ready"
  THEN [origin |-> Origin, kind |-> "garbage", id |-> NoId, error |-> NoError,
        result |-> Undefined]
  ELSE Response(Origin, o.id, IF o.error = <<>> THEN NoError ELSE o.error[1],
                o.result)

\* postMessage(data, targetOrigin) reaches the parent only if its origin matches
Reaches(o) == o.target \in {"*", Www}

HubReceive == \E e \in toHub : HubListener(FromClient(e))

Deliver ==
  \E i \in 1..Len(hubOut) : Reaches(hubOut[i]) /\ Listener(ToClient(hubOut[i]))

\* The hub initialised either just now (its 'ready' is still on its way) or
\* before the client installed its listener (nothing is on its way).
InitPoll ==
  /\ Constructed(TRUE)
  /\ \E out \in {<<Ready("*")>>, <<>>} :
        HubStarted(<<Entry({Www}, Operations)>>, "raw", out)

NextPoll ==
  \/ Poll
  \/ HubReceive
  \/ Deliver
  \/ OnConnect
  \/ \E method \in ClientMethods : Request(method)
  \/ \E id \in Ids : Timeout(id)

\* Interval and timer callbacks always run and posted messages are delivered.
SpecPoll ==
  /\ InitPoll
  /\ [][NextPoll]_vars
  /\ WF_vars(Poll) /\ WF_vars(HubReceive) /\ WF_vars(Deliver)
  /\ \A id \in Ids : WF_vars(Timeout(id))

\* The same client when it may be closed: close() removes the frame from the
\* document, so the hub handles messages only while the client is open.
NextPollClose ==
  \/ Poll
  \/ ~closed /\ HubReceive
  \/ Deliver
  \/ OnConnect
  \/ \E method \in ClientMethods : Request(method)
  \/ \E id \in Ids : Timeout(id)
  \/ Close

SpecPollClose == InitPoll /\ [][NextPollClose]_vars

\* ------------------------------------- hub under the README's permissions

Root == "http://example.com"

\* The characters of an origin string.
Scheme     == <<"h", "t", "t", "p", ":", "/", "/">>
ExampleCom == <<"e", "x", "a", "m", "p", "l", "e", ".", "c", "o", "m">>
Chars(origin) ==
  CASE origin = Www  -> Scheme \o <<"w", "w", "w", ".">> \o ExampleCom
    [] origin = Sub  -> Scheme \o <<"s", "u", "b", ".">> \o ExampleCom
    [] origin = Root -> Scheme \o ExampleCom
    [] origin = Evil -> Scheme \o <<"e", "v", "i", "l", ".", "c", "o", "m">>

\* A RegExp ending in $: a run of parts, each a run of pattern characters that
\* is either required or an optional group (...)?; AnyChar is an unescaped dot.
AnyChar       == "any"
Lit(chars)    == [optional |-> FALSE, chars |-> chars]
Opt(chars)    == [optional |-> TRUE, chars |-> chars]
ExampleDotCom == <<"e", "x", "a", "m", "p", "l", "e", AnyChar, "c", "o", "m">>

\* The pattern characters match the string from position pos on.
CharsMatch(chars, string, pos) ==
  /\ pos + Len(chars) - 1 <= Len(string)
  /\ \A j \in 1..Len(chars) :
       chars[j] = AnyChar \/ chars[j] = string[pos + j - 1]

\* The parts from the i-th on match the string from pos to its end.
RECURSIVE MatchFrom(_, _, _, _)
MatchFrom(parts, i, string, pos) ==
  IF i > Len(parts) THEN pos = Len(string) + 1
  ELSE IF CharsMatch(parts[i].chars, string, pos)
          /\ MatchFrom(parts, i + 1, string, pos + Len(parts[i].chars))
       THEN TRUE
       ELSE parts[i].optional /\ MatchFrom(parts, i + 1, string, pos)

\* entry.origin.test(origin): the pattern matches from some position on
RegExpTest(parts, string) ==
  \E pos \in 1..(Len(string) + 1) : MatchFrom(parts, 1, string, pos)

ExampleOrigins == {Www, Sub, Root, Evil}

\* {origin: <RegExp>, allow: [...]}
PatternEntry(parts, allow) ==
  Entry({o \in ExampleOrigins : RegExpTest(parts, Chars(o))}, allow)

\* /\.example.com$/ and /:(www\.)?example.com$/
ReadmePermissions ==
  << PatternEntry(<<Lit(<<".">> \o ExampleDotCom)>>, {"get"}),
     PatternEntry(<<Lit(<<":">>), Opt(<<"w", "w", "w", ".">>), Lit(ExampleDotCom)>>,
                  {"get", "set", "del"}) >>

\* /\.example.com$/ and /:\/\/(www\.)?example.com$/
ReadmeAnchoredPermissions ==
  << PatternEntry(<<Lit(<<".">> \o ExampleDotCom)>>, {"get"}),
     PatternEntry(<<Lit(<<":", "/", "/">>), Opt(<<"w", "w", "w", ".">>),
                    Lit(ExampleDotCom)>>,
                  {"get", "set", "del"}) >>

\* The same example with the patterns /\.example\.com$/ and
\* /(www\.)?example\.com$/
ScenarioPermissions ==
  << PatternEntry(<<Lit(<<".">> \o ExampleCom)>>, {"get"}),
     PatternEntry(<<Opt(<<"w", "w", "w", ".">>), Lit(ExampleCom)>>,
                  {"get", "set", "del"}) >>

ExampleMessages ==
  { HubRequest(o, 1, Wire("set"), Params(k, v, NoTtl, <<>>, "ev1")) :
      o \in ExampleOrigins, k \in Keys, v \in Values }
  \cup { HubRequest(o, 1, Wire(n), Params("key1", Undef, NoTtl, <<k>>, "ev1")) :
      o \in ExampleOrigins, n \in {"get", "del"}, k \in Keys }

InitExample ==
  /\ ClientInit
  /\ \E perms \in {ReadmePermissions, ReadmeAnchoredPermissions, ScenarioPermissions} :
        HubInit(perms, "ttl")

NextExample == \E m \in ExampleMessages : HubListener(m)

SpecExample == InitExample /\ [][NextExample]_vars

\* ------------------------------------------------ hub page that is loading

InitTables == {<<>>, <<Entry({Www, "file://"}, Operations)>>}

InitLoading ==
  /\ ClientInit
  /\ HubPage("loading", <<>>, "ttl", <<>>)

NextLoading ==
  \/ \E perms \in InitTables, available \in BOOLEAN : Hub_init(perms, available)
  \/ \E m \in PermMessages : HubListener(m)
  \/ \E m \in PermMessages : Unheard(m)

SpecLoading == InitLoading /\ [][NextLoading]_vars

\* ------------------------------------------- hub with change subscriptions

ListenParams(e) == Params("key1", Str("foo"), NoTtl, <<"key1">>, e)

ListenMessages ==
  { HubRequest(Www, 1, Wire(n), ListenParams(e)) :
      n \in {"listen", "unlisten", "set", "del"}, e \in EventKeys }

InitListen ==
  /\ ClientInit
  /\ HubInit(<<Entry({Www}, Operations)>>, "raw")

NextListen ==
  \/ \E m \in ListenMessages : HubListener(m)
  \/ \E k \in Keys, area \in {"localStorage", "sessionStorage"} : StorageEvent(k, area)

SpecListen == InitListen /\ [][NextListen]_vars

\* ------------------------------------------- hub serving one allowed origin

KeySeqs == UNION { [1..n -> Keys] : n \in 0..MaxKeys }

\* set is called with every value and no ttl, and with a string and every ttl.
StoreMessages ==
  { HubRequest(Www, 1, Wire("set"), Params(k, v, NoTtl, <<>>, "ev1")) :
      k \in Keys, v \in Values }
  \cup { HubRequest(Www, 1, Wire("set"), Params(k, Str("foo"), ttl, <<>>, "ev1")) :
      k \in Keys, ttl \in Ttls }
  \cup { HubRequest(Www, 1, Wire(n), Params("key1", Undef, NoTtl, ks, "ev1")) :
      n \in {"get", "del"}, ks \in KeySeqs }
  \cup { HubRequest(Www, 1, Wire(n), NoParams) : n \in {"clear", "getKeys"} }

\* The hub of dist/hub.js: items are stored as JSON with an optional expire.
InitStore ==
  /\ ClientInit
  /\ HubInit(<<Entry({Www}, Operations)>>, "ttl")

NextStore ==
  \/ \E m \in StoreMessages : HubListener(m)
  \/ Tick

SpecStore == InitStore /\ [][NextStore]_vars

\* The same hub on a store that other scripts of its origin write to as well.
NextShared ==
  \/ \E m \in StoreMessages : HubListener(m)
  \/ Tick
  \/ \E k \in Keys : ForeignSetItem(k)

SpecShared == InitStore /\ [][NextShared]_vars

\* The same hub with a client that sets a key without ttl only over an item
\* that carries an expiry.
SetWithTtl(k) ==
  HubListener(HubRequest(Www, 1, Wire("set"),
                         Params(k, Str("foo"), Ttl(MaxTtl), <<>>, "ev1")))

Overwrite(k, v) ==
  /\ storage[k] # Absent
  /\ IsJson(storage[k])
  /\ HasExpire(JsonParse(storage[k]))
  /\ HubListener(HubRequest(Www, 1, Wire("set"), Params(k, v, NoTtl, <<>>, "ev1")))

NextOverwrite ==
  \/ \E k \in Keys : SetWithTtl(k)
  \/ \E k \in Keys, v \in Values : Overwrite(k, v)
  \/ \E ks \in KeySeqs :
       HubListener(HubRequest(Www, 1, Wire("get"), Params("key1", Undef, NoTtl, ks, "ev1")))
  \/ \E ks \in KeySeqs :
       HubListener(HubRequest(Www, 1, Wire("del"), Params("key1", Undef, NoTtl, ks, "ev1")))
  \/ Tick

SpecOverwrite == InitStore /\ [][NextOverwrite]_vars

\* The hub of lib/hub.js: values are handed to localStorage as they come.
InitRawStore ==
  /\ ClientInit
  /\ HubInit(<<Entry({Www}, Operations)>>, "raw")

SpecRawStore == InitRawStore /\ [][NextStore]_vars

\* ------------------------------------------------------------------ claims

RequestPromises == {p \in 1..Len(promises) : promises[p].kind = "request"}
ConnectPromises == {p \in 1..Len(promises) : promises[p].kind = "connect"}
IsTimeoutError(err) == Len(err) = 2 /\ err[1] = "Timeout: could not perform "

\* C1: a response from the hub settles exactly the pending request registered
\* under the id it carries, with that response's error or result, whatever the
\* order of arrival; every other request's promise is left as it was.
C1_ResponseSettlesOwnRequest ==
  [][\A m \in ClientMessages : Listener(m) =>
       \A p \in RequestPromises :
         IF /\ ~closed /\ m.origin = Origin /\ m.kind = "response"
            /\ m.id # NoId /\ m.id \in DOMAIN requests
            /\ promises[p].id = m.id /\ promises[p].state = "pending"
         THEN /\ promises'[p].id = m.id
              /\ promises'[p].method = promises[p].method
              /\ IF m.error # NoError
                 THEN promises'[p].state = "rejected" /\ promises'[p].err = <<m.error>>
                 ELSE promises'[p].state = "fulfilled" /\ promises'[p].val = m.result
         ELSE promises'[p] = promises[p]]_vars

\* C1 witness: both requests are settled by their own responses, the response
\* to the first request arriving last (after the second was already fulfilled).
C1_Witness ==
  /\ Len(promises) >= 2
  /\ \E p, q \in RequestPromises :
       /\ promises[p].id = 1 /\ promises[q].id = 2
       /\ promises[q].state = "fulfilled" /\ promises[q].val = "r2"
       /\ promises[p].state = "fulfilled" /\ promises[p].val = "r1"
       /\ clientIn = Response(Origin, 1, NoError, "r1")
       /\ timers = {}

\* C2: a request settles once, by its response or by its timeout, never both:
\* while its timer is armed the request is registered and pending (a handled
\* response disarms it), a timed-out request is no longer registered, a settled
\* promise never changes, and a response whose id is not registered changes no
\* request, timer or registry entry.
C2_SettlesOnce ==
  /\ [](\A id \in timers :
          id \in DOMAIN requests /\ promises[requests[id]].state = "pending")
  /\ [](\A p \in RequestPromises :
          IsTimeoutError(promises[p].err) => promises[p].id \notin DOMAIN requests)
  /\ [][\A p \in 1..Len(promises) :
          promises[p].state # "pending" => promises'[p] = promises[p]]_vars
  /\ [][\A m \in ClientMessages :
          (Listener(m) /\ m.id \notin DOMAIN requests) =>
             /\ \A p \in RequestPromises : promises'[p] = promises[p]
             /\ timers' = timers /\ requests' = requests]_vars

\* C2 witness: the timeout fired first and a late response carrying the same
\* id was then delivered from the hub; the request stays rejected by timeout.
C2_Witness ==
  /\ ~closed
  /\ \E p \in RequestPromises :
       /\ promises[p].id = 1
       /\ promises[p].state = "rejected" /\ IsTimeoutError(promises[p].err)
       /\ clientIn = Response(Origin, 1, NoError, "r1")

\* The origin the hub tests: 'null' (a file:// page) is tested as 'file://'.
Requester(m) == IF m.origin = "null" THEN "file://" ELSE m.origin

\* Some entry both matches the origin and lists the method, unlisten counting
\* as the listen capability.
Granted(origin, method) ==
  \E i \in 1..Len(permissions) :
     /\ permissions[i].isRegExp /\ permissions[i].isArray
     /\ origin \in permissions[i].origin
     /\ (IF method = "unlisten" THEN "listen" ELSE method) \in permissions[i].allow

Executed(method, reply) ==
  CASE method = "set"      -> storage'["key1"] # Absent
    [] method = "get"      -> reply.result = IF storage["key1"] = Absent THEN Null
                                                 ELSE storage["key1"].text.value
    [] method = "del"      -> storage'["key1"] = Absent
    [] method = "clear"    -> \A k \in Keys : storage'[k] = Absent
    [] method = "getKeys"  -> reply.result.t = "array"
    [] method = "listen"   -> eventListeners'["ev1"] = "handler"
    [] method = "unlisten" -> eventListeners'["ev1"] = "null"
                                 /\ \A i \in 1..Len(handlers') : handlers'[i] # "ev1"

\* C4: the hub executes an operation exactly when some entry both matches the
\* requester's origin and lists the method (unlisten as listen), wherever that
\* entry stands in the table and whatever the other entries say; otherwise it
\* answers with the permission error and changes nothing.
C4_GrantedIffSomeEntry ==
  [][\A m \in {hubIn'} :
       (/\ HubListener(m) /\ m.kind = "request"
        /\ MethodOf(m.method) \in Operations) =>
          /\ Len(hubOut') = 1
          /\ IF Granted(Requester(m), MethodOf(m.method))
             THEN /\ hubOut'[1].error # <<"Invalid permissions for ", MethodOf(m.method)>>
                  /\ hubOut'[1].error = <<>> => Executed(MethodOf(m.method), hubOut'[1])
                  /\ (MethodOf(m.method) = "listen" /\ eventListeners["ev1"] = "unset")
                       => hubOut'[1].error = <<>>
                  /\ MethodOf(m.method) # "listen" => hubOut'[1].error = <<>>
             ELSE /\ hubOut'[1].error = <<"Invalid permissions for ", MethodOf(m.method)>>
                  /\ storage' = storage
                  /\ eventListeners' = eventListeners
                  /\ handlers' = handlers]_vars

\* C4 witness: the first entry matches www but does not list set, the second
\* grants it; the set from www was executed.
C4_Witness ==
  /\ permissions = <<Entry({Www, Sub}, {"get"}), Entry({Www}, {"get", "set", "del"})>>
  /\ hubIn = HubRequest(Www, 1, Wire("set"), SampleParams)
  /\ hubOut = <<Reply(1, <<>>, Undef, Www)>>
  /\ storage["key1"] # Absent

\* C5 (as claimed): a get of one key answers with the value of the last
\* acknowledged set of that key when that set carried no ttl.
C5_SetThenGet ==
  [][\A k \in Keys :
       (/\ HubListener(HubRequest(Www, 1, Wire("get"),
                                  Params("key1", Undef, NoTtl, <<k>>, "ev1")))
        /\ written[k] # Unwritten
        /\ written[k].ttl = NoTtl) =>
           hubOut' = <<Reply(1, <<>>, written[k].value, Www)>>]_vars

\* C6 (as claimed): a get of one key last set with an
\* integer ttl answers with the value while now is before the set time plus
\* ttl, and with null, removing the key, once now is past it.
C6_TtlExpiry ==
  [][\A k \in Keys :
       (/\ HubListener(HubRequest(Www, 1, Wire("get"),
                                  Params("key1", Undef, NoTtl, <<k>>, "ev1")))
        /\ written[k] # Unwritten
        /\ written[k].ttl.t = "number") =>
           /\ now < written[k].at + written[k].ttl.n =>
                hubOut'[1].result = written[k].value
           /\ now > written[k].at + written[k].ttl.n =>
                hubOut'[1].result = Null /\ storage'[k] = Absent]_vars

\* C7: with a hub that never replies, every registered request is eventually
\* rejected with 'Timeout: could not perform <its own method>' and leaves the
\* registry; until then it stays pending, registered and with its timer armed.
C7_TimeoutRejects ==
  /\ [](\A p \in RequestPromises : promises[p].id # NoId =>
          IF promises[p].state = "pending"
          THEN promises[p].id \in DOMAIN requests /\ promises[p].id \in timers
          ELSE /\ promises[p].state = "rejected"
               /\ promises[p].id \notin DOMAIN requests
               /\ \E e \in toHub : /\ e.id = promises[p].id
                                   /\ promises[p].err = <<"Timeout: could not perform ", e.method>>)
  /\ \A id \in Ids :
       (id \in DOMAIN requests) ~>
          (/\ id \notin DOMAIN requests
           /\ \E p \in RequestPromises :
                /\ promises[p].id = id /\ promises[p].state = "rejected"
                /\ IsTimeoutError(promises[p].err))

\* C7 witness: a set request timed out and is gone from the registry.
C7_Witness ==
  \E p \in RequestPromises :
    /\ promises[p].id # NoId /\ promises[p].method = "set"
    /\ promises[p].state = "rejected"
    /\ promises[p].err = <<"Timeout: could not perform ", "set">>
    /\ promises[p].id \notin DOMAIN requests

\* C8: closed is terminal, and once closed no step registers a request, arms
\* a timer, advances the request counter or posts to the hub; every promise
\* handed out by a request made while closed is already rejected with the
\* closed-client error.
C8_ClosedIsTerminal ==
  [][closed =>
       /\ closed'
       /\ DOMAIN requests' \subseteq DOMAIN requests
       /\ timers' \subseteq timers
       /\ count' = count
       /\ toHub' = toHub
       /\ \A p \in (1..Len(promises')) \ (1..Len(promises)) :
            promises'[p].kind = "request" =>
              promises'[p].state = "rejected" /\ promises'[p].err = ClosedError]_vars

\* C8 witness: a request made after close() was rejected with the closed error.
C8_Witness ==
  /\ closed
  /\ \E p \in RequestPromises :
       promises[p].state = "rejected" /\ promises[p].err = ClosedError

\* C9 (as claimed): once the client is connected every promise returned by an
\* earlier onConnect() has been fulfilled.
C9_AllConnectWaitersSettle ==
  connected => \A p \in ConnectPromises : promises[p].state = "fulfilled"

Strangers == {m \in ClientMessages : m.origin # Origin}

\* C11 (as claimed): a message from another origin, whatever id it carries,
\* leaves connected, every onConnect and request promise, the registry and the
\* timers as they were.
C11_StrangerIsDropped ==
  [][\A m \in Strangers :
       (Listener(m) \/ DistListener(m)) =>
          /\ connected' = connected
          /\ promises' = promises
          /\ requests' = requests
          /\ requestsConnect' = requestsConnect
          /\ timers' = timers]_vars

\* C12: connected rises only on a message from the target origin handled by a
\* client that is not closed, and it falls only by close(); closed is terminal
\* and a closed client is never connected. A second rise would need a fall in
\* between, hence a close(), after which connected stays false: connected
\* rises at most once.
C12_ConnectsAtMostOnce ==
  /\ [](closed => ~connected)
  /\ [][closed => closed']_vars
  /\ [][(connected /\ ~connected') => closed']_vars
  /\ [][(~connected /\ connected') =>
          /\ ~closed /\ ~closed'
          /\ \E m \in ClientMessages : m.origin = Origin /\ Listener(m)]_vars

\* C12 witness: the client connected (its onConnect promise was fulfilled), was
\* closed, and a ready message from the hub delivered afterwards left it
\* disconnected.
C12_Witness ==
  /\ closed /\ ~connected
  /\ clientIn.kind = "ready" /\ clientIn.origin = Origin
  /\ \E p \in ConnectPromises : promises[p].state = "fulfilled"

\* C13 (as claimed): every message that parses and carries a string method is
\* answered with exactly one response carrying its id and addressed to its
\* sender ('*' for a file:// page, whose origin cannot be named).
C13_OneResponsePerRequest ==
  [][\A m \in {hubIn'} :
       (HubListener(m) /\ m.kind = "request") =>
          /\ Len(hubOut') = 1
          /\ hubOut'[1].kind = "response"
          /\ hubOut'[1].id = m.id
          /\ hubOut'[1].target = IF m.origin = "null" THEN "*" ELSE m.origin]_vars

\* C14: a message whose payload does not parse, or parses without a string
\* method, gets no response and changes neither the store, the subscriptions
\* nor the permissions; the listener stays ready for every later message.
C14_MalformedIsIgnored ==
  /\ [][\A m \in {hubIn'} :
          (HubListener(m) /\ m.kind \in {"garbage", "nomethod"}) =>
             /\ hubOut' = <<>>
             /\ storage' = storage
             /\ eventListeners' = eventListeners
             /\ handlers' = handlers
             /\ permissions' = permissions]_vars
  /\ [](\A m \in PermMessages : ENABLED HubListener(m))

\* C14 witness: after a set was served, a payload that does not parse was
\* delivered; nothing was posted and the key is still stored.
C14_Witness ==
  /\ hubIn.kind = "garbage" /\ hubIn.origin = Www
  /\ hubOut = <<>>
  /\ storage["key1"] # Absent

\* C15 (as claimed): a payload from the target origin that is neither the
\* ready token nor JSON raises no error in the listener and leaves every
\* request pending, registered and with its timer armed.
C15_GarbageIsDropped ==
  [][\A m \in ClientMessages :
       (Listener(m) /\ m.origin = Origin /\ m.kind = "garbage") =>
          /\ uncaught' = ""
          /\ requests' = requests
          /\ timers' = timers
          /\ \A p \in RequestPromises : promises'[p] = promises[p]]_vars

\* A get of the keys ks, a del of the keys ks, and a request without params.
GetRequest(ks) == HubRequest(Www, 1, Wire("get"), Params("key1", Undef, NoTtl, ks, "ev1"))
DelRequest(ks) == HubRequest(Www, 1, Wire("del"), Params("key1", Undef, NoTtl, ks, "ev1"))
BareRequest(n) == HubRequest(Www, 1, Wire(n), NoParams)

\* The i-th value of a get result for n keys: the array's i-th element, or the
\* bare result when one key was asked for.
Element(result, n, i) == IF n > 1 THEN result.items[i] ELSE result

\* The item stored under k is there and its expiry, if any, is still ahead /
\* k is absent or its expiry is behind.
Live(k) ==
  /\ storage[k] # Absent
  /\ HasExpire(storage[k].text) => storage[k].text.expire > now
Dead(k) ==
  \/ storage[k] = Absent
  \/ HasExpire(storage[k].text) /\ storage[k].text.expire < now

\* C16: a get of n >= 1 keys succeeds; for n > 1 the result is an array of
\* length n, for n = 1 it is bare; its i-th value is the stored value of the
\* i-th key when that item is live and null when the key is absent or
\* expired, duplicates included (the instant of expiry itself is left open).
C16_GetIsPositional ==
  [][\A ks \in {hubIn'.params.keys} \ {<<>>} :
       (hubIn'.method = Wire("get") /\ HubListener(GetRequest(ks))) =>
          /\ Len(hubOut') = 1
          /\ hubOut'[1].error = <<>>
          /\ IF Len(ks) > 1
             THEN hubOut'[1].result.t = "array" /\ Len(hubOut'[1].result.items) = Len(ks)
             ELSE hubOut'[1].result.t # "array"
          /\ \A i \in 1..Len(ks) :
               /\ Live(ks[i]) =>
                    Element(hubOut'[1].result, Len(ks), i) = storage[ks[i]].text.value
               /\ Dead(ks[i]) =>
                    Element(hubOut'[1].result, Len(ks), i) = Null]_vars

\* C16 witness: get(key1, key2) answered ['foo', null], key2 having expired
\* (this get removed its item).
C16_Witness ==
  /\ hubIn = GetRequest(<<"key1", "key2">>)
  /\ hubOut = <<Reply(1, <<>>, Array(<<Str("foo"), Null>>), Www)>>
  /\ "key2" \in DOMAIN removed
  /\ storage["key1"] # Absent

\* C17 (as claimed): the result of a get is bare exactly when one key was
\* requested; for any other number of keys, zero included, it is an array with
\* one element per requested key.
C17_BareOnlyForOneKey ==
  [][\A ks \in {hubIn'.params.keys} :
       (hubIn'.method = Wire("get") /\ HubListener(GetRequest(ks))) =>
          /\ hubOut'[1].error = <<>>
          /\ IF Len(ks) = 1
             THEN hubOut'[1].result.t # "array"
             ELSE /\ hubOut'[1].result.t = "array"
                  /\ Len(hubOut'[1].result.items) = Len(ks)]_vars

\* C18: a del succeeds without a result and leaves every listed key absent,
\* whether or not it was stored; a get of keys that are all absent answers
\* null for each of them. Hence del(k1, k2) followed by get(k1, k2) answers
\* [null, null] whatever the store held.
C18_DelThenGetIsNull ==
  [][\A ks \in {hubIn'.params.keys} \ {<<>>} :
       /\ (hubIn'.method = Wire("del") /\ HubListener(DelRequest(ks))) =>
             /\ hubOut' = <<Reply(1, <<>>, Undef, Www)>>
             /\ \A i \in 1..Len(ks) : storage'[ks[i]] = Absent
       /\ (/\ hubIn'.method = Wire("get") /\ HubListener(GetRequest(ks))
           /\ \A i \in 1..Len(ks) : storage[ks[i]] = Absent) =>
             /\ hubOut'[1].error = <<>>
             /\ Len(ks) > 1 => Len(hubOut'[1].result.items) = Len(ks)
             /\ \A i \in 1..Len(ks) :
                  Element(hubOut'[1].result, Len(ks), i) = Null]_vars

\* C18 witness: one del took both keys out of the store, one of them a string
\* the hub had not written.
C18_Witness ==
  /\ hubIn = DelRequest(<<"key1", "key2">>)
  /\ hubOut = <<Reply(1, <<>>, Undef, Www)>>
  /\ DOMAIN removed = Keys
  /\ removed["key2"] = ForeignString
  /\ \A k \in Keys : storage[k] = Absent

\* C19: a clear succeeds and leaves no key in the store, strings written by
\* other scripts included; on the empty store getKeys answers [] and a get
\* answers null; and the empty store is filled again only by a set (or by
\* another script's write), never by another request.
C19_ClearEmptiesTheStore ==
  [][/\ (hubIn'.method = Wire("clear") /\ HubListener(BareRequest("clear"))) =>
          /\ hubOut' = <<Reply(1, <<>>, Undef, Www)>>
          /\ \A k \in Keys : storage'[k] = Absent
     /\ (\A k \in Keys : storage[k] = Absent) =>
          /\ (hubIn'.method = Wire("getKeys") /\ HubListener(BareRequest("getKeys"))) =>
                hubOut' = <<Reply(1, <<>>, Array(<<>>), Www)>>
          /\ \A k \in Keys :
               (hubIn' = GetRequest(<<k>>) /\ HubListener(GetRequest(<<k>>))) =>
                 hubOut' = <<Reply(1, <<>>, Null, Www)>>
          /\ (\E k \in Keys : storage'[k] # Absent) =>
               \/ \E k \in Keys : ForeignSetItem(k)
               \/ MethodOf(hubIn'.method) = "set" /\ HubListener(hubIn')]_vars

\* C19 witness: a clear wiped a string written by another script together
\* with an item the hub had stored.
C19_Witness ==
  /\ hubIn = BareRequest("clear")
  /\ hubOut = <<Reply(1, <<>>, Undef, Www)>>
  /\ DOMAIN removed = Keys
  /\ removed["key1"] = ForeignString
  /\ IsJson(removed["key2"])
  /\ \A k \in Keys : storage[k] = Absent

\* C20: getKeys succeeds with an array that lists every key present in the
\* store exactly once and nothing else, and leaves the store as it is; a key
\* leaves the store only by a get, a del or a clear that removes it, never by
\* the passing of time, so an expired item is listed until it is read.
C20_GetKeysListsTheStore ==
  [][/\ (hubIn'.method = Wire("getKeys") /\ HubListener(BareRequest("getKeys"))) =>
          LET listed == hubOut'[1].result
          IN /\ hubOut'[1].error = <<>>
             /\ listed.t = "array"
             /\ {listed.items[i] : i \in 1..Len(listed.items)} =
                  {k \in Keys : storage[k] # Absent}
             /\ Len(listed.items) = Cardinality({k \in Keys : storage[k] # Absent})
             /\ storage' = storage
     /\ \A k \in Keys :
          (storage[k] # Absent /\ storage'[k] = Absent) =>
             /\ hubIn'.method \in {Wire("get"), Wire("del"), Wire("clear")}
             /\ k \in DOMAIN removed']_vars

\* C20 witness: getKeys listed key1 although its item had already expired.
C20_Witness ==
  /\ hubIn = BareRequest("getKeys")
  /\ Len(hubOut) = 1 /\ hubOut[1].error = <<>>
  /\ \E i \in 1..Len(hubOut[1].result.items) : hubOut[1].result.items[i] = "key1"
  /\ IsJson(storage["key1"])
  /\ HasExpire(storage["key1"].text)
  /\ storage["key1"].text.expire < now

\* The item stored under k carries an expiry instant.
Expiring(k) == IsJson(storage[k]) /\ HasExpire(storage[k].text)

\* C21 (as claimed): a get of one key whose item carries the expiry instant
\* expireAt answers null and removes the key when now >= expireAt, the instant
\* now = expireAt included, and answers the stored value when now < expireAt.
C21_ExpiredFromTheInstant ==
  [][\A k \in Keys :
       (hubIn' = GetRequest(<<k>>) /\ HubListener(GetRequest(<<k>>)) /\ Expiring(k)) =>
          IF now >= storage[k].text.expire
          THEN hubOut' = <<Reply(1, <<>>, Null, Www)>> /\ storage'[k] = Absent
          ELSE hubOut' = <<Reply(1, <<>>, storage[k].text.value, Www)>>]_vars

\* C22 (as claimed): a set whose ttl is present and not an integer is answered
\* with the error 'ttl must be a number' and writes nothing: the store is left
\* exactly as it was.
C22_BadTtlWritesNothing ==
  [][\A m \in {hubIn'} :
       (/\ HubListener(m)
        /\ m.method = Wire("set")
        /\ m.params.ttl.t \notin {"undefined", "number"}) =>
          /\ hubOut' = <<Reply(m.id, <<"ttl must be a number">>, Undef, Www)>>
          /\ storage' = storage]_vars

\* C23 (as claimed): a get that lists a key whose stored string does not parse
\* as a stored item succeeds (no error in the response) with null for that
\* key, and with the stored value of every other listed key whose item is live.
C23_UnparsableReadsNull ==
  [][\A ks \in {hubIn'.params.keys} \ {<<>>} :
       (/\ hubIn'.method = Wire("get") /\ HubListener(GetRequest(ks))
        /\ \E i \in 1..Len(ks) : storage[ks[i]] = ForeignString) =>
          /\ hubOut'[1].error = <<>>
          /\ \A i \in 1..Len(ks) :
               /\ storage[ks[i]] = ForeignString =>
                    Element(hubOut'[1].result, Len(ks), i) = Null
               /\ (IsJson(storage[ks[i]]) /\ Live(ks[i])) =>
                    Element(hubOut'[1].result, Len(ks), i) = storage[ks[i]].text.value]_vars

\* C24 (as claimed): under the table [/\.example\.com$/ allow get,
\* /(www\.)?example\.com$/ allow get, set, del] a set from sub.example.com is
\* answered with the permission error and leaves the store unchanged, the same
\* set from www.example.com succeeds, and a following get from www.example.com
\* returns the written value.
C24_SubdomainCannotSet ==
  [][\A m \in {hubIn'} :
       (HubListener(m) /\ permissions = ScenarioPermissions) =>
          /\ (m.origin = Sub /\ m.method = Wire("set")) =>
                /\ hubOut' = <<Reply(m.id, InvalidPermissions("set"), Undef, Sub)>>
                /\ storage' = storage
          /\ (m.origin = Www /\ m.method = Wire("set")) =>
                /\ hubOut' = <<Reply(m.id, <<>>, Undef, Www)>>
                /\ storage'[m.params.key] # Absent
          /\ (/\ m.origin = Www /\ m.method = Wire("get")
              /\ written[m.params.keys[1]] # Unwritten) =>
                hubOut' = <<Reply(m.id, <<>>, written[m.params.keys[1]].value, Www)>>]_vars

\* C25 (as claimed): the registry holds exactly the requests that were sent and
\* are not settled yet: a sent request's id is in the registry if and only if
\* its promise is still pending, whether it settled by a response or by its
\* timeout.
C25_RegistryIsUnsettled ==
  \A p \in RequestPromises :
     promises[p].id # NoId =>
        (promises[p].id \in DOMAIN requests <=> promises[p].state = "pending")

\* C26: close() settles nothing: it leaves every promise, the registry and the
\* timers as they are. Once the client is closed a pending request changes
\* only when its own timer fires, which rejects it with 'Timeout: could not
\* perform <its method>'; no message delivered after close() settles it.
C26_CloseLeavesRequestsToTimeOut ==
  [][/\ Close => (promises' = promises /\ requests' = requests /\ timers' = timers)
     /\ closed =>
          \A p \in RequestPromises :
             (promises[p].state = "pending" /\ promises'[p] # promises[p]) =>
                /\ Timeout(promises[p].id)
                /\ promises'[p] = Settle(promises[p], "rejected",
                                         TimeoutError(promises[p].method), Undefined)]_vars

\* C26 witness: the client is closed, the hub's response to request 1 has been
\* delivered, and request 1 is still pending with its timer armed.
C26_Witness ==
  /\ closed
  /\ clientIn \in {Response(Origin, 1, NoError, r) : r \in Results}
  /\ \E p \in RequestPromises :
        /\ promises[p].id = 1
        /\ promises[p].state = "pending"
        /\ 1 \in timers

\* C27 (as claimed): a client constructed on an existing frame whose hub had
\* initialised before (nothing of the hub's is on its way) eventually becomes
\* connected: the hub answers the client's poll with a ready signal addressed
\* to the client's origin, and from some point on the client is connected and
\* no onConnect result is pending.
C27_PollConnects ==
  /\ [][(hubIn' = FromClient(PollToken) /\ HubListener(FromClient(PollToken))) =>
          hubOut' = <<Ready(Www)>>]_vars
  /\ (polling /\ hubOut = <<>>) =>
        <>[](/\ connected
             /\ \A p \in ConnectPromises : promises[p].state # "pending")

\* C28 (as claimed): whatever the hub posts in answer to a message whose
\* origin is the string 'null', a response envelope or the ready reply to a
\* poll, is addressed to the target '*', never to 'null'.
C28_NoOriginIsAnsweredToWildcard ==
  hubIn.origin = "null" =>
     \A i \in 1..Len(hubOut) : hubOut[i].target = "*"

HandlersFor(e) == Cardinality({i \in 1..Len(handlers) : handlers[i] = e})
PostsFor(out, e) ==
  Cardinality({i \in 1..Len(out) : out[i].kind = "event" /\ out[i].eventKey = e})

\* C30: a listen whose eventKey is registered is answered with the error
\* "Can't reuse eventKeys" and changes nothing; a registered eventKey has
\* exactly one handler installed at any time; and a change of localStorage by
\* another document is forwarded exactly once for every registered eventKey.
C30_ListenTwiceIsRefused ==
  /\ [](\A e \in EventKeys : eventListeners[e] = "handler" => HandlersFor(e) = 1)
  /\ [][\A e \in EventKeys : eventListeners[e] = "handler" =>
          /\ \A m \in {hubIn'} :
               (HubListener(m) /\ m.method = Wire("listen") /\ m.params.eventKey = e) =>
                  /\ hubOut' = <<Reply(m.id, <<"Can't reuse eventKeys">>, Undef, Www)>>
                  /\ handlers' = handlers
                  /\ eventListeners' = eventListeners
          /\ \A k \in Keys :
               StorageEvent(k, "localStorage") => PostsFor(hubOut', e) = 1]_vars

\* C30 witness: listen('ev1') was just refused while ev1 and ev2 are both
\* registered, each with one handler.
C30_Witness ==
  /\ hubIn = HubRequest(Www, 1, Wire("listen"), ListenParams("ev1"))
  /\ hubOut = <<Reply(1, <<"Can't reuse eventKeys">>, Undef, Www)>>
  /\ handlers = <<"ev2", "ev1">>
  /\ \A e \in EventKeys : eventListeners[e] = "handler"

\* The ids of the requests sent so far.
SentIds == {promises[p].id : p \in RequestPromises} \ {NoId}

\* C31: the request counter only increases; every request sent gets an id no
\* earlier request had, so the sent requests have pairwise different ids; and
\* a response changes no request but the one whose id it carries, so a late
\* response to an old request leaves every newer pending request pending.
C31_IdsAreNeverReused ==
  /\ [](\A p, q \in RequestPromises :
          (p # q /\ promises[p].id # NoId) => promises[p].id # promises[q].id)
  /\ [][/\ count' >= count
        /\ \A i \in SentIds' \ SentIds : i > count /\ i \notin SentIds
        /\ \A m \in {clientIn'} :
             Listener(m) =>
                \A p \in RequestPromises :
                   promises'[p] # promises[p] => promises[p].id = m.id]_vars

\* C31 witness: request 1 timed out, request 2 is pending, and the hub's late
\* response to request 1 was delivered without touching request 2.
C31_Witness ==
  /\ clientIn \in {Response(Origin, 1, NoError, r) : r \in Results}
  /\ 1 \notin DOMAIN requests
  /\ 2 \in DOMAIN requests
  /\ \E p, q \in RequestPromises :
        /\ promises[p].id = 1 /\ promises[p].state = "rejected"
        /\ promises[q].id = 2 /\ promises[q].state = "pending"

\* The request with id i is pending / has settled.
Pending(i) == \E p \in RequestPromises : promises[p].id = i /\ promises[p].state = "pending"
Settled(i) == \E p \in RequestPromises : promises[p].id = i /\ promises[p].state # "pending"

\* C32: with timers that eventually fire, every request sent by a client
\* that was not closed eventually settles, whatever is delivered meanwhile
\* (a response, nothing, a payload that does not parse) and also when the
\* client is closed while the request is pending; once settled it stays so.
C32_EveryRequestSettles ==
  /\ \A i \in Ids : Pending(i) ~> Settled(i)
  /\ [][\A i \in Ids : Settled(i) => (Settled(i)' /\ ~Pending(i)')]_vars

\* C32 witness: a request sent before close() was rejected by its timeout on
\* the closed client, after a payload that does not parse had been delivered.
C32_Witness ==
  /\ closed
  /\ clientIn.kind = "garbage"
  /\ \E p \in RequestPromises :
        /\ promises[p].id # NoId
        /\ promises[p].err = TimeoutError(promises[p].method)

\* C33: the hub executes nothing but get, set, del, clear, getKeys, listen and
\* unlisten: a step that changes the store or the subscriptions handles a
\* request for one of them, and a request naming anything else (a helper such
\* as inArray) is answered with the permission error and changes nothing, also
\* when an entry matching its origin lists that name in allow.
C33_OnlyOperationsAreExecuted ==
  [][\A m \in {hubIn'} :
       HubListener(m) =>
          /\ (\/ storage' # storage \/ eventListeners' # eventListeners
              \/ handlers' # handlers \/ written' # written) =>
                (m.kind = "request" /\ MethodOf(m.method) \in Operations)
          /\ (m.kind = "request" /\ MethodOf(m.method) \notin Operations \cup {""}) =>
                /\ hubOut' = <<Reply(m.id, InvalidPermissions(MethodOf(m.method)), Undef,
                                     IF Requester(m) = "file://" THEN "*" ELSE Requester(m))>>
                /\ storage' = storage
                /\ eventListeners' = eventListeners
                /\ handlers' = handlers]_vars

\* C33 witness: an entry matching sub lists inArray in allow, and sub's
\* request for inArray was answered with the permission error.
C33_Witness ==
  /\ \E i \in 1..Len(permissions) :
        Sub \in permissions[i].origin /\ "inArray" \in permissions[i].allow
  /\ hubIn = HubRequest(Sub, 1, Wire("inArray"), SampleParams)
  /\ hubOut = <<Reply(1, InvalidPermissions("inArray"), Undef, Sub)>>

\* C34 (as claimed): a set with an integer ttl, 0 and negative values
\* included, stores the item with expire = now + ttl, and a set stores an item
\* without expire only when its ttl is omitted.
C34_EveryIntegerTtlExpires ==
  [][\A m \in {hubIn'} :
       (HubListener(m) /\ m.method = Wire("set")) =>
          /\ m.params.ttl.t = "number" =>
                storage'[m.params.key] =
                   JsonStringify([value |-> m.params.value,
                                  expire |-> now + m.params.ttl.n])
          /\ (hubOut'[1].error = <<>> /\ ~HasExpire(storage'[m.params.key].text)) =>
                m.params.ttl = NoTtl]_vars

Names(m, k) ==
  IF MethodOf(m.method) = "set" THEN m.params.key = k
  ELSE \E i \in 1..Len(m.params.keys) : m.params.keys[i] = k

\* C36: a set of k without ttl over an item stored with a ttl leaves the item
\* {value} with no expire; from then on, at every time, also past the first
\* ttl, a get of k answers with that value and every step other than a set or
\* a del of k leaves the stored item as it is.
C36_SetReplacesTheWholeItem ==
  /\ [][\A k \in Keys, v \in Values :
          Overwrite(k, v) => storage'[k] = JsonStringify([value |-> v])]_vars
  /\ [][\A k \in Keys :
          (written[k] # Unwritten /\ written[k].ttl = NoTtl) =>
             \A m \in {hubIn'} :
                IF HubListener(m) /\ MethodOf(m.method) \in {"set", "del"} /\ Names(m, k)
                THEN TRUE
                ELSE /\ storage'[k] = storage[k]
                     /\ storage[k] = JsonStringify([value |-> written[k].value])
                     /\ (HubListener(m) /\ MethodOf(m.method) = "get"
                           /\ m.params.keys = <<k>>) =>
                          hubOut' = <<Reply(1, <<>>, written[k].value, Www)>>]_vars

\* C36 witness: key1, set with a ttl and then overwritten without one when
\* the hub started, is read after the first ttl has elapsed and the get
\* answers with the second value.
C36_Witness ==
  /\ now > StartTime + MaxTtl
  /\ written["key1"] = [value |-> Obj, ttl |-> NoTtl, at |-> StartTime]
  /\ hubIn = HubRequest(Www, 1, Wire("get"), Params("key1", Undef, NoTtl, <<"key1">>, "ev1"))
  /\ hubOut = <<Reply(1, <<>>, Obj, Www)>>

\* The item stored under k carries an expire that _get finds in the past.
Expired(k) == Expiring(k) /\ JsonParse(storage[k]).expire < now

\* C37 (as claimed): a get removes the requested keys that are expired and
\* leaves every other stored string as it is; a del removes exactly the keys
\* it lists and leaves every other stored string as it is.
C37_OnlyNamedKeysAreTouched ==
  [][\A m \in {hubIn'} : HubListener(m) =>
       CASE MethodOf(m.method) = "get" ->
              \A k \in Keys :
                 storage'[k] = IF Names(m, k) /\ Expired(k) THEN Absent ELSE storage[k]
         [] MethodOf(m.method) = "del" ->
              \A k \in Keys :
                 storage'[k] = IF Names(m, k) THEN Absent ELSE storage[k]
         [] OTHER -> TRUE]_vars

\* C38: a listen or an unlisten the hub executes leaves its eventKey in
\* _eventListeners, an eventKey once there stays there, and every listen with
\* such an eventKey, also one whose subscription unlisten has removed, is
\* answered with "Can't reuse eventKeys" and installs no handler.
C38_EventKeysAreNeverReusable ==
  [][\A m \in {hubIn'} :
       (HubListener(m) /\ MethodOf(m.method) \in {"listen", "unlisten"}) =>
          /\ eventListeners'[m.params.eventKey] # "unset"
          /\ \A e \in EventKeys :
                eventListeners[e] # "unset" => eventListeners'[e] # "unset"
          /\ (MethodOf(m.method) = "listen"
                /\ eventListeners[m.params.eventKey] # "unset") =>
                   /\ hubOut' = <<Reply(m.id, <<"Can't reuse eventKeys">>, Undef, Www)>>
                   /\ handlers' = handlers
                   /\ eventListeners' = eventListeners]_vars

\* C38 witness: listen('ev1') was just refused although unlisten had removed
\* the subscription of ev1 and no handler is installed for it.
C38_Witness ==
  /\ hubIn = HubRequest(Www, 1, Wire("listen"), ListenParams("ev1"))
  /\ hubOut = <<Reply(1, <<"Can't reuse eventKeys">>, Undef, Www)>>
  /\ eventListeners["ev1"] = "null"
  /\ HandlersFor("ev1") = 0

\* C39: close() settles no result of onConnect(); once the client is closed
\* it stays closed, no step settles or changes a result of onConnect(),
\* whatever message arrives, and every onConnect() called from then on, also
\* on a client that had been connected, returns a pending result.
C39_ConnectNeverSettlesOnceClosed ==
  [][(closed \/ Close) =>
       /\ closed'
       /\ \A p \in ConnectPromises : promises'[p] = promises[p]
       /\ \A p \in (Len(promises) + 1)..Len(promises') :
             promises'[p].kind = "connect" => promises'[p].state = "pending"]_vars

\* C39 witness: on a closed client that had been connected (its first
\* onConnect() was fulfilled), an onConnect() called after close() is pending,
\* and a message from the hub arrived after close() and was not read.
C39_Witness ==
  /\ closed
  /\ Len(promises) = 2
  /\ promises[1].kind = "connect" /\ promises[1].state = "fulfilled"
  /\ promises[2].kind = "connect" /\ promises[2].state = "pending"
  /\ clientIn.origin = Origin
  /\ clientIn.kind = "garbage"
  /\ uncaught = ""

\* C40 (as claimed): a closed client posts nothing to the hub's window: no
\* step adds a message to those it has posted, and the interval callback of
\* an existing-frame client posts no 'poll'.
C40_ClosedClientSendsNothing ==
  [][closed => (toHub' = toHub /\ ~(Poll /\ ~connected))]_vars

====
